---- MODULE Spec2Model ----
(***************************************************************************)
(* Model of the ManageSource page (frontend/src/pages/ManageSource.jsx):   *)
(* the loaded document collection, the filtered and sorted view, the       *)
(* selection, the delete confirmation dialog, and the getDocuments and     *)
(* deleteDocuments calls in flight between the page and the server; and   *)
(* of the ChatAsk component (unnamed/part_001): the conversation, the      *)
(* input and the generateReply call in flight.                             *)
(***************************************************************************)
EXTENDS Integers, Sequences, FiniteSets, Bags, TLC

VARIABLES
  documents,          \* useState([])            ManageSource.jsx:19
  filteredDocuments,  \* useState([])            ManageSource.jsx:20
  loading,            \* useState(true)          ManageSource.jsx:21
  selectedDocuments,  \* useState(new Set())     ManageSource.jsx:22
  searchTerm,         \* useState('')            ManageSource.jsx:23
  sortConfig,         \* useState({key: null, direction: 'asc'})  :24
  showDeleteConfirm,  \* useState(false)         ManageSource.jsx:25
  sizeFilter,         \* useState('')            ManageSource.jsx:26
  dateFilter,         \* useState('')            ManageSource.jsx:27
  server,             \* the pdf records the backend holds, in listing order
  deleteCalls,        \* deleteDocuments calls awaiting their response
  listCalls,          \* getDocuments calls awaiting their response
  toast,              \* the notification the last step emitted
  lastOp,             \* the handler or continuation that ran last
  hist,               \* selection before each of the last handleSelectAll runs
  messages,           \* useState([])            part_001:18
  currentInput,       \* useState('')            part_001:19
  isLoading,          \* useState(false)         part_001:20
  error,              \* useState(null)          part_001:21
  replyCalls,         \* generateReply calls awaiting their response
  chatOp              \* the ChatAsk handler or continuation that ran last

vars == <<documents, filteredDocuments, loading, selectedDocuments, searchTerm,
          sortConfig, showDeleteConfirm, sizeFilter, dateFilter, server,
          deleteCalls, listCalls, toast, lastOp, hist,
          messages, currentInput, isLoading, error, replyCalls, chatOp>>

\* the state of the ManageSource page
page == <<documents, filteredDocuments, loading, selectedDocuments, searchTerm,
          sortConfig, showDeleteConfirm, sizeFilter, dateFilter, server,
          deleteCalls, listCalls, toast, lastOp, hist>>

\* the state of the ChatAsk component
chat == <<messages, currentInput, isLoading, error, replyCalls, chatOp>>

-----------------------------------------------------------------------------
(* Bounds of the model. *)

\* calls (deleteDocuments and getDocuments together) that may await their
\* response at the same time
MaxCalls == 2

\* documents in the longest list the backend answers with when the view is
\* examined over every list
MaxListLen == 3

\* messages the conversation may hold when a submit is accepted
MaxMessages == 4

-----------------------------------------------------------------------------
(* JavaScript values. Strings the code inspects character by character are *)
(* sequences of UTF-16 code units; a Date is its time value or NaN.        *)

\* undefined, for a field that holds a string
Missing == "undefined"

\* undefined, for a field that holds a number
NoNumber == -1

\* NaN; every number of the model proper is >= 0
NaN == -2

\* sortConfig.key before any header was clicked
NoKey == "null"

\* String.prototype.toLowerCase on one code unit (ASCII range)
LowerUnit(c) == IF c >= 65 /\ c <= 90 THEN c + 32 ELSE c

ToLowerCase(s) == [i \in 1..Len(s) |-> LowerUnit(s[i])]

\* String.prototype.includes
Includes(s, sub) ==
  \E i \in 0..(Len(s) - Len(sub)) : SubSeq(s, i + 1, i + Len(sub)) = sub

\* the relational operator < on two strings: code unit by code unit
StrLess(a, b) ==
  \E i \in 1..(Len(b)) :
     /\ \A j \in 1..(i - 1) : j <= Len(a) /\ a[j] = b[j]
     /\ \/ i = Len(a) + 1
        \/ i <= Len(a) /\ a[i] < b[i]

\* the relational operator < on two numbers: false when either is NaN
NumLess(a, b) == a # NaN /\ b # NaN /\ a < b

\* parseFloat(sizeFilter) as a fraction <<numerator, denominator>>;
\* <<0, 0>> stands for NaN
ParseFloat(s) ==
  CASE s = "1"   -> <<1, 1>>
    [] s = "1.5" -> <<3, 2>>
    [] s = "2"   -> <<2, 1>>
    [] OTHER     -> <<0, 0>>

\* new Date(dateFilter).getTime(): the day's first instant, or NaN
DateTime(s) ==
  CASE s = "2024-01-01" -> 10
    [] s = "2024-02-01" -> 20
    [] s = "2024-03-01" -> 30
    [] OTHER            -> NaN

BytesPerMB == 1024 * 1024

-----------------------------------------------------------------------------
(* The records the backend lists (response.pdfs).                          *)

RawPdf(stored, name, processed, uploaded, size, hash) ==
  [stored_filename |-> stored, original_filename |-> name,
   processed_time |-> processed, uploaded_time |-> uploaded,
   file_size |-> size, file_hash |-> hash]

\* the backend's files at mount: "Ab" (1 MB, processed at 10) and "b"
\* (2 MB, uploaded at 20, never processed)
InitialFiles ==
  << RawPdf("s1.pdf", <<65, 98>>, 10, 5, BytesPerMB, "h1"),
     RawPdf("s2.pdf", <<98>>, NoNumber, 20, 2 * BytesPerMB, "h2") >>

\* new Date(doc.processed_time || doc.uploaded_time).getTime()
UploadTime(raw) ==
  LET v == IF raw.processed_time # NoNumber THEN raw.processed_time
           ELSE raw.uploaded_time
  IN  IF v = NoNumber THEN NaN ELSE v

\* `doc-${index}` for the zero-based position index
PositionalId(index) ==
  CASE index = 0 -> "doc-0"
    [] index = 1 -> "doc-1"
    [] index = 2 -> "doc-2"
    [] OTHER     -> "doc-n"

\* one element of response.pdfs.map((doc, index) => ...); pos is index + 1
ProcessDoc(raw, pos) ==
  [id |-> IF raw.stored_filename # Missing THEN raw.stored_filename
          ELSE PositionalId(pos - 1),
   name |-> raw.original_filename,
   storedFilename |-> raw.stored_filename,
   uploadDate |-> UploadTime(raw),
   size |-> IF raw.file_size # NoNumber THEN raw.file_size ELSE 0,
   fileHash |-> raw.file_hash]

ProcessDocs(pdfs) == [i \in 1..Len(pdfs) |-> ProcessDoc(pdfs[i], i)]

-----------------------------------------------------------------------------
(* filterAndSortDocuments: the view of the collection under the filters.   *)

RECURSIVE KeepAt(_, _)
\* Array.prototype.filter, the predicate given as the set of the positions
\* whose element it accepts
KeepAt(s, keep) ==
  IF s = <<>> THEN <<>>
  ELSE LET rest == KeepAt(SubSeq(s, 1, Len(s) - 1), keep)
       IN  IF Len(s) \in keep THEN Append(rest, s[Len(s)]) ELSE rest

MatchesSearch(doc, term) == Includes(ToLowerCase(doc.name), ToLowerCase(term))

\* the minimum size read as kilobytes (not what the code does)
MatchesSizeInKB(doc, f) == doc.size * f[2] >= f[1] * 1024

\* doc.size / (1024 * 1024) >= sizeValue, for sizeValue = f[1] / f[2]
MatchesSize(doc, f) == doc.size * f[2] >= f[1] * BytesPerMB

\* doc.uploadDate >= filterDate: false when either time value is NaN
MatchesDate(doc, t) == doc.uploadDate # NaN /\ t # NaN /\ doc.uploadDate >= t

\* the value the comparator reads for a document under sortConfig.key
SortValue(doc, key) ==
  CASE key = "uploadDate" -> doc.uploadDate
    [] key = "size"       -> doc.size
    [] OTHER              -> ToLowerCase(doc.name)

ValueLess(a, b, key) ==
  IF key = "name" THEN StrLess(a, b) ELSE NumLess(a, b)

\* the comparator with the direction ignored (not what the code does)
CompareAscending(a, b, cfg) ==
  LET aValue == SortValue(a, cfg.key)
      bValue == SortValue(b, cfg.key)
  IN  IF ValueLess(aValue, bValue, cfg.key) THEN -1
      ELSE IF ValueLess(bValue, aValue, cfg.key) THEN 1
      ELSE 0

\* the comparator of filtered.sort: -1, 0 or 1
Compare(a, b, cfg) ==
  LET aValue == SortValue(a, cfg.key)
      bValue == SortValue(b, cfg.key)
  IN  IF ValueLess(aValue, bValue, cfg.key)
        THEN IF cfg.direction = "asc" THEN -1 ELSE 1
      ELSE IF ValueLess(bValue, aValue, cfg.key)
        THEN IF cfg.direction = "asc" THEN 1 ELSE -1
      ELSE 0

RECURSIVE InsertSorted(_, _, _)
\* x goes after every element it does not sort before (stable)
InsertSorted(s, x, cfg) ==
  IF s = <<>> THEN <<x>>
  ELSE IF Compare(s[Len(s)], x, cfg) <= 0 THEN Append(s, x)
  ELSE Append(InsertSorted(SubSeq(s, 1, Len(s) - 1), x, cfg), s[Len(s)])

RECURSIVE SortDocs(_, _)
\* Array.prototype.sort: stable
SortDocs(s, cfg) ==
  IF s = <<>> THEN <<>>
  ELSE InsertSorted(SortDocs(SubSeq(s, 1, Len(s) - 1), cfg), s[Len(s)], cfg)

\* the view sorted by name before any header was clicked (not what the
\* code does)
FilterAndSortAlwaysSorting(docs, term, sizeF, dateF, cfg) ==
  LET bySearch == IF term # <<>>
                    THEN KeepAt(docs, {i \in 1..Len(docs) : MatchesSearch(docs[i], term)})
                    ELSE docs
      sizeValue == ParseFloat(sizeF)
      bySize   == IF sizeF # "" /\ sizeValue # <<0, 0>>
                    THEN KeepAt(bySearch, {i \in 1..Len(bySearch) :
                                             MatchesSize(bySearch[i], sizeValue)})
                    ELSE bySearch
      byDate   == IF dateF # ""
                    THEN KeepAt(bySize, {i \in 1..Len(bySize) :
                                           MatchesDate(bySize[i], DateTime(dateF))})
                    ELSE bySize
  IN  SortDocs(byDate, IF cfg.key # NoKey THEN cfg
                        ELSE [key |-> "name", direction |-> "asc"])

FilterAndSort(docs, term, sizeF, dateF, cfg) ==
  LET bySearch == IF term # <<>>
                    THEN KeepAt(docs, {i \in 1..Len(docs) : MatchesSearch(docs[i], term)})
                    ELSE docs
      sizeValue == ParseFloat(sizeF)
      bySize   == IF sizeF # "" /\ sizeValue # <<0, 0>>
                    THEN KeepAt(bySearch, {i \in 1..Len(bySearch) :
                                             MatchesSize(bySearch[i], sizeValue)})
                    ELSE bySearch
      byDate   == IF dateF # ""
                    THEN KeepAt(bySize, {i \in 1..Len(bySize) :
                                           MatchesDate(bySize[i], DateTime(dateF))})
                    ELSE bySize
  IN  IF cfg.key # NoKey THEN SortDocs(byDate, cfg) ELSE byDate

Ids(docs) == {docs[i].id : i \in 1..Len(docs)}

-----------------------------------------------------------------------------
(* Notifications (toast.success / toast.error).                            *)

Toast(kind, message, count) == [kind |-> kind, message |-> message, count |-> count]

NoToast == Toast("none", "", 0)

NoDocumentsSelected == Toast("error", "No documents selected", 0)

DeleteFailed == Toast("error", "Delete Failed", 0)

NoFilesDeleted == Toast("error", "No files were deleted", 0)

LoadFailed == Toast("error", "Failed to load documents", 0)

\* `Delete Successfully - ${result.total_deleted} files deleted`
DeleteSuccessfully(n) == Toast("success", "Delete Successfully", n)

-----------------------------------------------------------------------------
(* The values the user can type or pick.                                   *)

SearchTerms == {<<>>, <<97>>}

SizeFilters == {"", "1.5"}

DateFilters == {"", "2024-02-01"}

\* the column header clicked in the page model (the Name column)
SortKeys == {"name"}

-----------------------------------------------------------------------------
(* ChatAsk after its first render (part_001 lines 18-21).                  *)

\* error before any failure
NoError == "null"

ChatInit ==
  /\ messages = <<>>
  /\ currentInput = ""
  /\ isLoading = FALSE
  /\ error = NoError
  /\ replyCalls = EmptyBag
  /\ chatOp = "mount"

-----------------------------------------------------------------------------
(* The state after the first render and its effects (lines 19-35): the     *)
(* mount effect has called loadDocuments, whose getDocuments is in flight. *)

ListCall(from) == [from |-> from, status |-> "sent", pdfs |-> <<>>]

Init ==
  /\ ChatInit
  /\ documents = <<>>
  /\ filteredDocuments = <<>>
  /\ loading = TRUE
  /\ selectedDocuments = {}
  /\ searchTerm = <<>>
  /\ sortConfig = [key |-> NoKey, direction |-> "asc"]
  /\ showDeleteConfirm = FALSE
  /\ sizeFilter = ""
  /\ dateFilter = ""
  /\ server = InitialFiles
  /\ deleteCalls = EmptyBag
  /\ listCalls = SetToBag({ListCall("mount")})
  /\ toast = NoToast
  /\ lastOp = "mount"
  /\ hist = <<>>

\* what the page renders when loading is false (lines 199-209 otherwise)
Rendered == ~loading

net == <<server, deleteCalls, listCalls>>

filters == <<searchTerm, sortConfig, sizeFilter, dateFilter>>

\* a handler that emits no notification and is no handleSelectAll run
Quiet(op) == toast' = NoToast /\ lastOp' = op /\ hist' = <<>>

-----------------------------------------------------------------------------
(* Filter and sort controls; the effect of lines 33-35 recomputes the view *)
(* before the next event is handled. lastOp names all four "view".         *)

\* SetSearchTerm with the selection pruned to the new view (not what the
\* code does)
SetSearchTermPruning(v) ==
  /\ Rendered
  /\ searchTerm' = v
  /\ filteredDocuments' = FilterAndSort(documents, v, sizeFilter, dateFilter, sortConfig)
  /\ selectedDocuments' = selectedDocuments \cap Ids(filteredDocuments')
  /\ Quiet("view")
  /\ UNCHANGED <<documents, loading, sortConfig,
                 showDeleteConfirm, sizeFilter, dateFilter, net>>
  /\ UNCHANGED chat

SetSearchTerm(v) ==
  /\ Rendered
  /\ searchTerm' = v
  /\ filteredDocuments' = FilterAndSort(documents, v, sizeFilter, dateFilter, sortConfig)
  /\ Quiet("view")
  /\ UNCHANGED <<documents, loading, selectedDocuments, sortConfig,
                 showDeleteConfirm, sizeFilter, dateFilter, net>>
  /\ UNCHANGED chat

SetSizeFilter(v) ==
  /\ Rendered
  /\ sizeFilter' = v
  /\ filteredDocuments' = FilterAndSort(documents, searchTerm, v, dateFilter, sortConfig)
  /\ Quiet("view")
  /\ UNCHANGED <<documents, loading, selectedDocuments, searchTerm, sortConfig,
                 showDeleteConfirm, dateFilter, net>>
  /\ UNCHANGED chat

SetDateFilter(v) ==
  /\ Rendered
  /\ dateFilter' = v
  /\ filteredDocuments' = FilterAndSort(documents, searchTerm, sizeFilter, v, sortConfig)
  /\ Quiet("view")
  /\ UNCHANGED <<documents, loading, selectedDocuments, searchTerm, sortConfig,
                 showDeleteConfirm, sizeFilter, net>>
  /\ UNCHANGED chat

SortDirection(cfg, key) ==
  IF cfg.key = key /\ cfg.direction = "asc" THEN "desc" ELSE "asc"

handleSort(key) ==
  /\ Rendered
  /\ sortConfig' = [key |-> key, direction |-> SortDirection(sortConfig, key)]
  /\ filteredDocuments' = FilterAndSort(documents, searchTerm, sizeFilter, dateFilter, sortConfig')
  /\ Quiet("view")
  /\ UNCHANGED <<documents, loading, selectedDocuments, searchTerm,
                 showDeleteConfirm, sizeFilter, dateFilter, net>>
  /\ UNCHANGED chat

-----------------------------------------------------------------------------
(* Selection.                                                              *)

ToggleSelection(sel, id) == IF id \in sel THEN sel \ {id} ELSE sel \cup {id}

\* the row buttons exist for the documents of the view only (line 330)
handleSelectDocument(id) ==
  /\ Rendered
  /\ id \in Ids(filteredDocuments)
  /\ selectedDocuments' = ToggleSelection(selectedDocuments, id)
  /\ Quiet("handleSelectDocument")
  /\ UNCHANGED <<documents, filteredDocuments, loading, filters,
                 showDeleteConfirm, net>>
  /\ UNCHANGED chat

\* SelectAllResult testing membership, not the two sizes
SelectAllByMembership(sel, filtered) ==
  IF Ids(filtered) \subseteq sel THEN {} ELSE Ids(filtered)

SelectAllResult(sel, filtered) ==
  IF Cardinality(sel) = Len(filtered) THEN {} ELSE Ids(filtered)

\* hist keeps the selection before each of the last two consecutive runs
handleSelectAll ==
  /\ Rendered
  /\ selectedDocuments' = SelectAllResult(selectedDocuments, filteredDocuments)
  /\ toast' = NoToast
  /\ lastOp' = "handleSelectAll"
  /\ hist' = IF hist = <<>> THEN <<selectedDocuments>>
             ELSE <<hist[Len(hist)], selectedDocuments>>
  /\ UNCHANGED <<documents, filteredDocuments, loading, filters,
                 showDeleteConfirm, net>>
  /\ UNCHANGED chat

-----------------------------------------------------------------------------
(* The backend, as the page sees it through getDocuments and               *)
(* deleteDocuments: a delete removes the stored files whose hash is among  *)
(* the keys and reports how many it removed.                               *)

HasKey(keys, raw) == BagIn(raw.file_hash, keys)

ServerAfterDelete(files, keys) ==
  KeepAt(files, {i \in 1..Len(files) : ~HasKey(keys, files[i])})

TotalDeleted(files, keys) == Len(files) - Len(ServerAfterDelete(files, keys))

-----------------------------------------------------------------------------
(* The delete workflow.                                                    *)

\* the Delete Selected button (lines 269-276); the dialog is an overlay,
\* the controls under it stay in the page and keep their handlers
OpenDeleteConfirm ==
  /\ Rendered
  /\ selectedDocuments # {}
  /\ showDeleteConfirm' = TRUE
  /\ Quiet("openDeleteConfirm")
  /\ UNCHANGED <<documents, filteredDocuments, loading, selectedDocuments,
                 filters, net>>
  /\ UNCHANGED chat

\* CancelDelete that also drops the selection
CancelDeleteClearing ==
  /\ Rendered
  /\ showDeleteConfirm
  /\ showDeleteConfirm' = FALSE
  /\ selectedDocuments' = {}
  /\ Quiet("cancelDelete")
  /\ UNCHANGED <<documents, filteredDocuments, loading, filters, net>>
  /\ UNCHANGED chat

\* the Cancel button of the dialog (lines 388-393)
CancelDelete ==
  /\ Rendered
  /\ showDeleteConfirm
  /\ showDeleteConfirm' = FALSE
  /\ Quiet("cancelDelete")
  /\ UNCHANGED <<documents, filteredDocuments, loading, selectedDocuments,
                 filters, net>>
  /\ UNCHANGED chat

\* documents.find(d => d.id === id) found a document
Found(docs, id) == \E i \in 1..Len(docs) : docs[i].id = id

FindDoc(docs, id) ==
  docs[CHOOSE i \in 1..Len(docs) :
         docs[i].id = id /\ \A j \in 1..(i - 1) : docs[j].id # id]

\* selectedFileHashes: one key per selected identifier
SelectedFileHashes(sel, docs) ==
  LET hashes == {FindDoc(docs, id).fileHash : id \in sel}
  IN  [h \in hashes |-> Cardinality({id \in sel : FindDoc(docs, id).fileHash = h})]

DeleteCall(keys) == [keys |-> keys]

CallsInFlight == BagCardinality(deleteCalls) + BagCardinality(listCalls)

\* handleDeleteSelected with the check of lines 144-147 inside the try
\* block, so that finally closes the dialog after it
handleDeleteSelectedClosing ==
  /\ Rendered
  /\ showDeleteConfirm
  /\ hist' = <<>>
  /\ IF selectedDocuments = {}
       THEN /\ toast' = NoDocumentsSelected
            /\ lastOp' = "confirmEmpty"
            /\ showDeleteConfirm' = FALSE
            /\ UNCHANGED deleteCalls
     ELSE IF \E id \in selectedDocuments : ~Found(documents, id)
       THEN /\ toast' = DeleteFailed
            /\ lastOp' = "confirmThrew"
            /\ showDeleteConfirm' = FALSE
            /\ UNCHANGED deleteCalls
     ELSE /\ CallsInFlight < MaxCalls
          /\ deleteCalls' = deleteCalls (+) SetToBag(
                 {DeleteCall(SelectedFileHashes(selectedDocuments, documents))})
          /\ toast' = NoToast
          /\ lastOp' = "confirmIssued"
          /\ UNCHANGED showDeleteConfirm
  /\ UNCHANGED <<documents, filteredDocuments, loading, selectedDocuments,
                 filters, server, listCalls>>
  /\ UNCHANGED chat

\* handleDeleteSelected, from the click on the dialog's Delete button
\* (lines 394-399) up to the await of line 155
handleDeleteSelected ==
  /\ Rendered
  /\ showDeleteConfirm
  /\ hist' = <<>>
  /\ IF selectedDocuments = {}
       THEN /\ toast' = NoDocumentsSelected
            /\ lastOp' = "confirmEmpty"
            /\ UNCHANGED <<showDeleteConfirm, deleteCalls>>
     ELSE IF \E id \in selectedDocuments : ~Found(documents, id)
       THEN \* doc is undefined, doc.fileHash throws: catch, then finally
            /\ toast' = DeleteFailed
            /\ lastOp' = "confirmThrew"
            /\ showDeleteConfirm' = FALSE
            /\ UNCHANGED deleteCalls
     ELSE /\ CallsInFlight < MaxCalls
          /\ deleteCalls' = deleteCalls (+) SetToBag(
                 {DeleteCall(SelectedFileHashes(selectedDocuments, documents))})
          /\ toast' = NoToast
          /\ lastOp' = "confirmIssued"
          /\ UNCHANGED showDeleteConfirm
  /\ UNCHANGED <<documents, filteredDocuments, loading, selectedDocuments,
                 filters, server, listCalls>>
  /\ UNCHANGED chat

\* DeleteResolved without line 163
DeleteResolvedKeepingSelection(c) ==
  /\ BagIn(c, deleteCalls)
  /\ LET n == TotalDeleted(server, c.keys)
     IN  toast' = IF n > 0 THEN DeleteSuccessfully(n) ELSE NoFilesDeleted
  /\ server' = ServerAfterDelete(server, c.keys)
  /\ deleteCalls' = deleteCalls (-) SetToBag({c})
  /\ loading' = TRUE
  /\ listCalls' = listCalls (+) SetToBag({ListCall("delete")})
  /\ lastOp' = "deleteResolved"
  /\ hist' = <<>>
  /\ UNCHANGED <<documents, filteredDocuments, filters, showDeleteConfirm,
                 selectedDocuments>>
  /\ UNCHANGED chat

\* DeleteResolved with lines 163-164 inside the if branch of line 157
DeleteResolvedReloadingOnSuccess(c) ==
  /\ BagIn(c, deleteCalls)
  /\ server' = ServerAfterDelete(server, c.keys)
  /\ deleteCalls' = deleteCalls (-) SetToBag({c})
  /\ lastOp' = "deleteResolved"
  /\ hist' = <<>>
  /\ IF TotalDeleted(server, c.keys) > 0
       THEN /\ toast' = DeleteSuccessfully(TotalDeleted(server, c.keys))
            /\ selectedDocuments' = {}
            /\ loading' = TRUE
            /\ listCalls' = listCalls (+) SetToBag({ListCall("delete")})
            /\ UNCHANGED showDeleteConfirm
       ELSE /\ toast' = NoFilesDeleted
            /\ showDeleteConfirm' = FALSE
            /\ UNCHANGED <<selectedDocuments, loading, listCalls>>
  /\ UNCHANGED <<documents, filteredDocuments, filters>>
  /\ UNCHANGED chat

\* deleteDocuments returned: lines 157-164, up to the await inside
\* loadDocuments (lines 39-40)
DeleteResolved(c) ==
  /\ BagIn(c, deleteCalls)
  /\ LET n == TotalDeleted(server, c.keys)
     IN  toast' = IF n > 0 THEN DeleteSuccessfully(n) ELSE NoFilesDeleted
  /\ server' = ServerAfterDelete(server, c.keys)
  /\ deleteCalls' = deleteCalls (-) SetToBag({c})
  /\ selectedDocuments' = {}
  /\ loading' = TRUE
  /\ listCalls' = listCalls (+) SetToBag({ListCall("delete")})
  /\ lastOp' = "deleteResolved"
  /\ hist' = <<>>
  /\ UNCHANGED <<documents, filteredDocuments, filters, showDeleteConfirm>>
  /\ UNCHANGED chat

\* DeleteRejected with setSelectedDocuments(new Set()) moved into finally
DeleteRejectedClearing(c) ==
  /\ BagIn(c, deleteCalls)
  /\ server' \in {server, ServerAfterDelete(server, c.keys)}
  /\ deleteCalls' = deleteCalls (-) SetToBag({c})
  /\ toast' = DeleteFailed
  /\ showDeleteConfirm' = FALSE
  /\ selectedDocuments' = {}
  /\ lastOp' = "deleteRejected"
  /\ hist' = <<>>
  /\ UNCHANGED <<documents, filteredDocuments, loading, filters, listCalls>>
  /\ UNCHANGED chat

\* DeleteRejected with loadDocuments() moved into finally
DeleteRejectedReloading(c) ==
  /\ BagIn(c, deleteCalls)
  /\ server' \in {server, ServerAfterDelete(server, c.keys)}
  /\ deleteCalls' = deleteCalls (-) SetToBag({c})
  /\ toast' = DeleteFailed
  /\ loading' = TRUE
  /\ listCalls' = listCalls (+) SetToBag({ListCall("delete")})
  /\ lastOp' = "deleteRejected"
  /\ hist' = <<>>
  /\ UNCHANGED <<documents, filteredDocuments, selectedDocuments, filters,
                 showDeleteConfirm>>
  /\ UNCHANGED chat

\* deleteDocuments threw: lines 165-170. The request may or may not have
\* reached the backend before it failed.
DeleteRejected(c) ==
  /\ BagIn(c, deleteCalls)
  /\ server' \in {server, ServerAfterDelete(server, c.keys)}
  /\ deleteCalls' = deleteCalls (-) SetToBag({c})
  /\ toast' = DeleteFailed
  /\ showDeleteConfirm' = FALSE
  /\ lastOp' = "deleteRejected"
  /\ hist' = <<>>
  /\ UNCHANGED <<documents, filteredDocuments, loading, selectedDocuments,
                 filters, listCalls>>
  /\ UNCHANGED chat

-----------------------------------------------------------------------------
(* loadDocuments.                                                          *)

\* the backend answers a getDocuments call with the files it holds now
ListAnswered(c) ==
  /\ BagIn(c, listCalls)
  /\ c.status = "sent"
  /\ listCalls' = (listCalls (-) SetToBag({c}))
                    (+) SetToBag({[c EXCEPT !.status = "answered", !.pdfs = server]})
  /\ UNCHANGED <<documents, filteredDocuments, loading, selectedDocuments,
                 filters, showDeleteConfirm, server, deleteCalls, toast,
                 lastOp, hist>>
  /\ UNCHANGED chat

\* AfterLoad without the finally block of lines 168-170
AfterLoadKeepingDialog(c) == showDeleteConfirm

\* what the caller of loadDocuments does once it returns: the mount effect
\* nothing, handleDeleteSelected its finally block (line 169)
AfterLoad(c) == IF c.from = "delete" THEN FALSE ELSE showDeleteConfirm

\* getDocuments returned: lines 41-49, 54
LoadResolved(c) ==
  /\ BagIn(c, listCalls)
  /\ c.status = "answered"
  /\ listCalls' = listCalls (-) SetToBag({c})
  /\ documents' = ProcessDocs(c.pdfs)
  /\ filteredDocuments' = FilterAndSort(documents', searchTerm, sizeFilter, dateFilter, sortConfig)
  /\ loading' = FALSE
  /\ showDeleteConfirm' = AfterLoad(c)
  /\ Quiet("loadResolved")
  /\ UNCHANGED <<selectedDocuments, filters, server, deleteCalls>>
  /\ UNCHANGED chat

\* getDocuments threw, the collection dropped with it (not what the code does)
LoadRejectedClearing(c) ==
  /\ BagIn(c, listCalls)
  /\ listCalls' = listCalls (-) SetToBag({c})
  /\ documents' = <<>>
  /\ filteredDocuments' = <<>>
  /\ toast' = LoadFailed
  /\ loading' = FALSE
  /\ showDeleteConfirm' = AfterLoad(c)
  /\ lastOp' = "loadRejected"
  /\ hist' = <<>>
  /\ UNCHANGED <<selectedDocuments, filters, server, deleteCalls>>
  /\ UNCHANGED chat

\* getDocuments threw: lines 50-54
LoadRejected(c) ==
  /\ BagIn(c, listCalls)
  /\ listCalls' = listCalls (-) SetToBag({c})
  /\ toast' = LoadFailed
  /\ loading' = FALSE
  /\ showDeleteConfirm' = AfterLoad(c)
  /\ lastOp' = "loadRejected"
  /\ hist' = <<>>
  /\ UNCHANGED <<documents, filteredDocuments, selectedDocuments, filters,
                 server, deleteCalls>>
  /\ UNCHANGED chat

-----------------------------------------------------------------------------

UserStep ==
  \/ \E v \in SearchTerms : SetSearchTerm(v)
  \/ \E v \in SizeFilters : SetSizeFilter(v)
  \/ \E v \in DateFilters : SetDateFilter(v)
  \/ \E key \in SortKeys : handleSort(key)
  \/ \E id \in Ids(filteredDocuments) : handleSelectDocument(id)
  \/ handleSelectAll
  \/ OpenDeleteConfirm
  \/ CancelDelete
  \/ handleDeleteSelected

NetworkStep ==
  \/ \E c \in BagToSet(deleteCalls) : DeleteResolved(c)
  \/ \E c \in BagToSet(deleteCalls) : DeleteRejected(c)
  \/ \E c \in BagToSet(listCalls) : ListAnswered(c)
  \/ \E c \in BagToSet(listCalls) : LoadResolved(c)
  \/ \E c \in BagToSet(listCalls) : LoadRejected(c)

Next == UserStep \/ NetworkStep

Spec == Init /\ [][Next]_vars

\* the delete workflow alone: selection, dialog and calls, the view fixed
WorkflowStep ==
  \/ \E id \in Ids(filteredDocuments) : handleSelectDocument(id)
  \/ OpenDeleteConfirm
  \/ CancelDelete
  \/ handleDeleteSelected

WorkflowNext == WorkflowStep \/ NetworkStep

\* every call in flight is eventually answered, and its answer handled;
\* nothing obliges the user to click
FairSpec == Init /\ [][WorkflowNext]_vars /\ WF_vars(NetworkStep)

\* a step of the page's own code that ran op; the backend's step
\* ListAnswered leaves lastOp as it is
Handled(op) ==
  /\ lastOp' = op
  /\ ~ \E c \in BagToSet(listCalls) : ListAnswered(c)

-----------------------------------------------------------------------------
(* The delete workflow's claims.                                           *)

\* C1: at most one deleteDocuments call awaits its response at any time:
\* while one is in flight the dialog's Delete button starts no second one.
C1_OneDeleteInFlight == BagCardinality(deleteCalls) <= 1

\* C2, as stated: after a deleteDocuments call has thrown and the failure
\* has been handled, no document is selected.
C2_SelectionClearedOnThrow ==
  lastOp = "deleteRejected" => selectedDocuments = {}

\* C2, amended: handling a thrown deleteDocuments call leaves the selection
\* exactly as it was; it closes the dialog and nothing is deselected.
C2_SelectionKeptOnThrow ==
  [][Handled("deleteRejected") =>
        /\ selectedDocuments' = selectedDocuments
        /\ ~showDeleteConfirm']_vars

C2_Witness ==
  /\ lastOp = "deleteRejected"
  /\ selectedDocuments # {}
  /\ ~showDeleteConfirm

\* C3: when deleteDocuments throws, the step that handles it emits
\* 'Delete Failed', issues no getDocuments call and leaves the loaded
\* collection (and the loading flag) as they were.
C3_ThrowNotifiesWithoutReload ==
  [][Handled("deleteRejected") =>
        /\ toast' = DeleteFailed
        /\ listCalls' = listCalls
        /\ documents' = documents
        /\ filteredDocuments' = filteredDocuments
        /\ loading' = loading]_vars

C3_Witness ==
  /\ lastOp = "deleteRejected"
  /\ toast = DeleteFailed
  /\ listCalls = EmptyBag
  /\ documents # <<>>
  /\ ~loading

-----------------------------------------------------------------------------
(* The selection's claims. After a run of handleSelectAll, hist ends with  *)
(* the selection the run started from; the view has not changed since.     *)

\* C4: selectAll clears the whole selection if every visible document is
\* selected, and in every other case (also when the selection is as large
\* as the visible set but holds identifiers outside it) leaves exactly the
\* visible identifiers selected.
C4_SelectAllByVisibleSet ==
  hist # <<>> =>
    selectedDocuments =
      IF Ids(filteredDocuments) \subseteq hist[Len(hist)]
        THEN {} ELSE Ids(filteredDocuments)

\* C5, as stated: two consecutive runs of selectAll on an unchanged visible
\* set leave the selection empty, whatever the selection was before.
C5_TwiceIsEmpty == Len(hist) = 2 => selectedDocuments = {}

\* C5, amended: two consecutive runs of selectAll on an unchanged visible
\* set leave the selection empty if the starting selection's size differs
\* from the number of visible documents or nothing is visible; if the
\* starting selection is as large as a non-empty visible set, they leave
\* exactly the visible identifiers selected.
C5_TwiceBySize ==
  Len(hist) = 2 =>
    selectedDocuments =
      IF Cardinality(hist[1]) = Len(filteredDocuments) /\ filteredDocuments # <<>>
        THEN Ids(filteredDocuments) ELSE {}

C5_Witness ==
  /\ Len(hist) = 2
  /\ lastOp = "handleSelectAll"
  /\ hist[1] # {}
  /\ Cardinality(hist[1]) # Len(filteredDocuments)
  /\ filteredDocuments # <<>>
  /\ selectedDocuments = {}

-----------------------------------------------------------------------------
(* The claims about a deleteDocuments call that returned.                  *)

\* the step handles the response to the call c: c leaves deleteCalls
ResponseTaken(c) ==
  /\ Handled("deleteResolved")
  /\ BagIn(c, deleteCalls)
  /\ CopiesIn(c, deleteCalls') < CopiesIn(c, deleteCalls)

\* a getDocuments call is issued only by the step that takes a delete's
\* response, and then exactly one
ReloadFollowsResponse ==
  BagCardinality(listCalls') > BagCardinality(listCalls) =>
    /\ Handled("deleteResolved")
    /\ BagCardinality(deleteCalls') = BagCardinality(deleteCalls) - 1
    /\ listCalls' = listCalls (+) SetToBag({ListCall("delete")})

\* C6: when deleteDocuments returns a count above 0, the step that takes
\* the response emits the success notification with that count, empties
\* the selection and issues exactly one getDocuments call; no getDocuments
\* call is issued for a delete before its response is taken.
C6_SuccessNotifiesClearsReloads ==
  /\ [][\A c \in BagToSet(deleteCalls) :
          ResponseTaken(c) /\ TotalDeleted(server, c.keys) > 0 =>
            /\ toast' = DeleteSuccessfully(TotalDeleted(server, c.keys))
            /\ selectedDocuments' = {}
            /\ loading'
            /\ listCalls' = listCalls (+) SetToBag({ListCall("delete")})]_vars
  /\ [][ReloadFollowsResponse]_vars

C6_Witness ==
  /\ lastOp = "deleteResolved"
  /\ toast = DeleteSuccessfully(2)
  /\ selectedDocuments = {}
  /\ loading
  /\ BagCardinality(listCalls) = 1
  /\ server = <<>>

\* C7: when deleteDocuments returns without error and with a count of 0,
\* the step that takes the response emits the error notification
\* 'No files were deleted', empties the selection and still issues a
\* getDocuments call.
C7_ZeroNotifiesClearsReloads ==
  [][\A c \in BagToSet(deleteCalls) :
       ResponseTaken(c) /\ TotalDeleted(server, c.keys) = 0 =>
         /\ toast' = NoFilesDeleted
         /\ toast'.kind = "error"
         /\ selectedDocuments' = {}
         /\ loading'
         /\ listCalls' = listCalls (+) SetToBag({ListCall("delete")})]_vars

C7_Witness ==
  /\ lastOp = "deleteResolved"
  /\ toast = NoFilesDeleted
  /\ selectedDocuments = {}
  /\ loading
  /\ \E c \in BagToSet(listCalls) : c.from = "delete" /\ c.status = "sent"

-----------------------------------------------------------------------------
(* The dialog's claims.                                                    *)

\* C8, as stated: a confirm made while nothing is selected emits
\* 'No documents selected', issues no call, changes neither the selection
\* nor the collection, and leaves the dialog closed.
C8_EmptyConfirmEndsIdle ==
  [][Handled("confirmEmpty") =>
        /\ toast' = NoDocumentsSelected
        /\ UNCHANGED <<deleteCalls, listCalls, selectedDocuments, documents>>
        /\ ~showDeleteConfirm']_vars

\* C8, amended: a confirm made while nothing is selected emits
\* 'No documents selected', issues no call, changes neither the selection
\* nor the collection, and leaves the dialog as it was: open.
C8_EmptyConfirmKeepsDialog ==
  [][Handled("confirmEmpty") =>
        /\ selectedDocuments = {}
        /\ toast' = NoDocumentsSelected
        /\ UNCHANGED <<deleteCalls, listCalls, selectedDocuments, documents,
                       filteredDocuments, loading>>
        /\ showDeleteConfirm
        /\ showDeleteConfirm']_vars

C8_Witness ==
  /\ lastOp = "confirmEmpty"
  /\ toast = NoDocumentsSelected
  /\ selectedDocuments = {}
  /\ showDeleteConfirm
  /\ deleteCalls = EmptyBag
  /\ listCalls = EmptyBag

\* the clicks on the dialog's two buttons, as lastOp names them
DialogDecisions == {"cancelDelete", "confirmEmpty", "confirmThrew", "confirmIssued"}

\* a delete is under way: its call, or the reload that follows it, is in
\* flight
DeleteUnderWay ==
  \/ deleteCalls # EmptyBag
  \/ \E c \in BagToSet(listCalls) : c.from = "delete"

\* C9, as stated: once the user has clicked Cancel or Delete in the open
\* dialog, the dialog is eventually closed, every call in flight being
\* answered.
C9_DecidedDialogCloses ==
  (showDeleteConfirm /\ lastOp \in DialogDecisions) ~> ~showDeleteConfirm

\* C9, amended: Cancel closes the dialog at once, and whenever the dialog
\* is open while a delete is under way it is eventually closed, every call
\* in flight being answered; a confirm made while nothing is selected
\* starts no delete and leaves the dialog open.
C9_DeletingDialogCloses ==
  /\ (showDeleteConfirm /\ DeleteUnderWay) ~> ~showDeleteConfirm
  /\ [][Handled("cancelDelete") => ~showDeleteConfirm']_vars

C9_Witness ==
  /\ lastOp = "loadResolved"
  /\ ~showDeleteConfirm
  /\ ~loading
  /\ Len(server) < Len(InitialFiles)
  /\ documents = ProcessDocs(server)
  /\ deleteCalls = EmptyBag
  /\ listCalls = EmptyBag

\* C10: Cancel closes the dialog and changes nothing else: the selection,
\* the collection, the view, the search term, the size and date filters
\* and the sort configuration stay as they were, and no call is issued.
C10_CancelOnlyCloses ==
  [][Handled("cancelDelete") =>
        /\ ~showDeleteConfirm'
        /\ toast' = NoToast
        /\ UNCHANGED <<selectedDocuments, documents, filteredDocuments,
                       loading, searchTerm, sizeFilter, dateFilter,
                       sortConfig, server, deleteCalls, listCalls>>]_vars

C10_Witness ==
  /\ lastOp = "cancelDelete"
  /\ ~showDeleteConfirm
  /\ selectedDocuments # {}
  /\ searchTerm # <<>>
  /\ sortConfig.key # NoKey
  /\ documents # <<>>

-----------------------------------------------------------------------------
(* Loading.                                                                *)

\* C11: when getDocuments fails, the collection loaded before (and the view
\* of it) is left exactly as it was, the 'Failed to load documents'
\* notification is emitted and loading is false again.
C11_LoadFailureKeepsCollection ==
  [][Handled("loadRejected") =>
       /\ documents' = documents
       /\ filteredDocuments' = filteredDocuments
       /\ toast' = LoadFailed
       /\ ~loading']_vars

\* a reload failed while a collection was loaded
C11_Witness ==
  /\ lastOp = "loadRejected"
  /\ toast = LoadFailed
  /\ documents # <<>>
  /\ ~loading

-----------------------------------------------------------------------------
(* Selection against the view and the collection.                          *)

\* the click on the dialog's Delete button ran handleDeleteSelected with a
\* selection that is not empty
ConfirmedNonEmpty ==
  Handled("confirmIssued") \/ Handled("confirmThrew")

\* C17: a confirmed delete with a selection that is not empty issues exactly
\* one deleteDocuments request, whose keys are the content hashes of the
\* selected documents, one key per selected identifier, whether or not the
\* documents are in the visible view.
C17_ConfirmIssuesSelectedHashes ==
  [][ConfirmedNonEmpty =>
       \E call \in BagToSet(deleteCalls') :
          /\ deleteCalls' = deleteCalls (+) SetToBag({call})
          /\ BagCardinality(call.keys) = Cardinality(selectedDocuments)
          /\ \A id \in selectedDocuments :
                \E i \in 1..Len(documents) :
                   /\ documents[i].id = id
                   /\ BagIn(documents[i].fileHash, call.keys)]_vars

\* C18: changing the search term, the size filter, the date filter or the
\* sort configuration never changes the selection: a selected document that
\* drops out of the view stays selected and counted.
C18_ViewChangeKeepsSelection ==
  [][Handled("view") => selectedDocuments' = selectedDocuments]_vars

\* a filter change has left a selected document of the collection out of
\* the view
C18_Witness ==
  /\ lastOp = "view"
  /\ \E id \in selectedDocuments :
        id \in Ids(documents) /\ id \notin Ids(filteredDocuments)

\* C19: in every reachable state every selected identifier is the
\* identifier of a document of the loaded collection, so that
\* documents.find at confirm time finds a document for each.
C19_SelectionWithinCollection == selectedDocuments \subseteq Ids(documents)

-----------------------------------------------------------------------------
(* The view over every collection: the backend answers the mount's         *)
(* getDocuments with any list of files, the page loads it, and the user    *)
(* then works the four filter and sort controls.                           *)

\* files the backend may list: "Ab" (1 MB, processed at 10), "aB" (2 MB,
\* uploaded at 20), "b" (no stored filename, no size, processed at 30) and
\* "a" (stored as "doc-1", 1.5 MB, no time at all)
ViewFiles ==
  { RawPdf("s1.pdf", <<65, 98>>, 10, 5, BytesPerMB, "h1"),
    RawPdf("s2.pdf", <<97, 66>>, NoNumber, 20, 2 * BytesPerMB, "h2"),
    RawPdf(Missing, <<98>>, 30, NoNumber, NoNumber, "h3"),
    RawPdf("doc-1", <<97>>, NoNumber, NoNumber, (3 * BytesPerMB) \div 2, "h4") }

\* the lists of at most MaxListLen of these files, none listed twice
RawLists ==
  UNION { { l \in [1..n -> ViewFiles] :
              \A i, j \in 1..n : l[i] = l[j] => i = j } : n \in 0..MaxListLen }

ViewSearchTerms == {<<>>, <<97>>, <<66>>}

ViewSizeFilters == {"", "1.5", "2"}

\* the last one is a string new Date() cannot parse
ViewDateFilters == {"", "2024-02-01", "not-a-date"}

ViewSortKeys == {"name", "uploadDate", "size"}

ViewInit ==
  /\ ChatInit
  /\ documents = <<>>
  /\ filteredDocuments = <<>>
  /\ loading = TRUE
  /\ selectedDocuments = {}
  /\ searchTerm = <<>>
  /\ sortConfig = [key |-> NoKey, direction |-> "asc"]
  /\ showDeleteConfirm = FALSE
  /\ sizeFilter = ""
  /\ dateFilter = ""
  /\ server \in RawLists
  /\ deleteCalls = EmptyBag
  /\ listCalls = SetToBag({ListCall("mount")})
  /\ toast = NoToast
  /\ lastOp = "mount"
  /\ hist = <<>>

ViewNext ==
  \/ \E c \in BagToSet(listCalls) : ListAnswered(c)
  \/ \E c \in BagToSet(listCalls) : LoadResolved(c)
  \/ \E c \in BagToSet(listCalls) : LoadRejected(c)
  \/ \E v \in ViewSearchTerms : SetSearchTerm(v)
  \/ \E v \in ViewSizeFilters : SetSizeFilter(v)
  \/ \E v \in ViewDateFilters : SetDateFilter(v)
  \/ \E key \in ViewSortKeys : handleSort(key)

ViewSpec == ViewInit /\ [][ViewNext]_vars

\* C12: the view holds only documents of the collection that satisfy every
\* active filter: the name contains the search term, case ignored; the
\* size in MB (size / 1,048,576) is at least the minimum size; the upload
\* instant is on or after the since-date.
C12_ViewSatisfiesFilters ==
  \A i \in 1..Len(filteredDocuments) :
     LET doc == filteredDocuments[i]
         min == ParseFloat(sizeFilter)
         since == DateTime(dateFilter)
     IN  /\ \E j \in 1..Len(documents) : documents[j] = doc
         /\ searchTerm # <<>> =>
               \E k \in 1..Len(doc.name) : \E n \in k..Len(doc.name) :
                  ToLowerCase(SubSeq(doc.name, k, n)) = ToLowerCase(searchTerm)
         /\ min # <<0, 0>> => doc.size * min[2] >= min[1] * 1048576
         /\ since # NaN => doc.uploadDate # NaN /\ doc.uploadDate >= since

\* all three filters are active; they let a document through and hold
\* another back
C12_Witness ==
  /\ searchTerm # <<>>
  /\ sizeFilter = "1.5"
  /\ dateFilter = "2024-02-01"
  /\ filteredDocuments # <<>>
  /\ Len(filteredDocuments) < Len(documents)

\* C13: with an empty search term, an empty size filter, an empty date
\* filter and no sort key, the view has the elements of the collection in
\* the collection's order (the empty view for the empty collection).
C13_NoFilterNoSortIsIdentity ==
  ( /\ searchTerm = <<>>
    /\ sizeFilter = ""
    /\ dateFilter = ""
    /\ sortConfig.key = NoKey ) => filteredDocuments = documents

\* the filters were used and cleared again over a collection of two or
\* more documents, no header clicked
C13_Witness ==
  /\ lastOp = "view"
  /\ searchTerm = <<>>
  /\ sizeFilter = ""
  /\ dateFilter = ""
  /\ sortConfig.key = NoKey
  /\ Len(documents) >= 2
  /\ filteredDocuments = documents

Reverse(s) == [i \in 1..Len(s) |-> s[Len(s) + 1 - i]]

NameDescending == [key |-> "name", direction |-> "desc"]

\* the view the same filters give when sorted by name, descending
ViewByNameDescending ==
  FilterAndSort(documents, searchTerm, sizeFilter, dateFilter, NameDescending)

\* C14, as stated: for a collection whose names are pairwise distinct, the
\* view sorted by name ascending, reversed, is the view sorted by name
\* descending under the same filters.
C14_DistinctNamesReverse ==
  ( /\ sortConfig = [key |-> "name", direction |-> "asc"]
    /\ \A i, j \in 1..Len(documents) :
          documents[i].name = documents[j].name => i = j )
  => Reverse(filteredDocuments) = ViewByNameDescending

\* C14, amended: the same, for a collection whose names are pairwise
\* distinct after toLowerCase.
C14_DistinctFoldedNamesReverse ==
  ( /\ sortConfig = [key |-> "name", direction |-> "asc"]
    /\ \A i, j \in 1..Len(documents) :
          ToLowerCase(documents[i].name) = ToLowerCase(documents[j].name) => i = j )
  => Reverse(filteredDocuments) = ViewByNameDescending

\* the Name header was clicked over a view of two or more documents whose
\* names differ even with case ignored, and the sort changed their order
C14_Witness ==
  /\ lastOp = "view"
  /\ sortConfig = [key |-> "name", direction |-> "asc"]
  /\ \A i, j \in 1..Len(documents) :
        ToLowerCase(documents[i].name) = ToLowerCase(documents[j].name) => i = j
  /\ Len(filteredDocuments) >= 2
  /\ filteredDocuments # documents
  /\ Reverse(filteredDocuments) = ViewByNameDescending

\* C15: an empty or invalid date threshold disables the date filter: the
\* view is the view computed with no date filter and otherwise the same
\* filter and sort state.
C15_InvalidDateDisablesFilter ==
  (dateFilter = "" \/ DateTime(dateFilter) = NaN) =>
     filteredDocuments =
       FilterAndSort(documents, searchTerm, sizeFilter, "", sortConfig)

\* C16: after every successful load the identifiers of the loaded documents
\* are pairwise distinct, whatever list the backend answered with.
C16_LoadedIdsDistinct ==
  \A i, j \in 1..Len(documents) : documents[i].id = documents[j].id => i = j

-----------------------------------------------------------------------------
(* ChatAsk (unnamed/part_001): handleSubmit up to its await, the           *)
(* continuations after generateReply, handleInputChange and clearHistory.  *)

\* what the user may have typed: nothing, a blank, two questions, and a
\* question between blanks
ChatInputs == {"", " ", "q", "p", " q "}

\* String.prototype.trim
Trim(s) ==
  CASE s = " "   -> ""
    [] s = " q " -> "q"
    [] OTHER     -> s

\* response.response of a generateReply that succeeded
Replies == {"r"}

Message(role, content) == [role |-> role, content |-> content]

Apology ==
  Message("assistant",
          "Sorry, I encountered an error. Please try asking your question again.")

FailedToGetResponse == "Failed to get response. Please try again."

ReplyCall(history) == [messages |-> history]

\* the textarea's onChange; the textarea is disabled while isLoading
handleInputChange(v) ==
  /\ ~isLoading
  /\ currentInput' = v
  /\ chatOp' = "input"
  /\ UNCHANGED <<messages, isLoading, error, replyCalls, page>>

\* handleSubmit up to the await of line 59
handleSubmit ==
  /\ IF Trim(currentInput) = "" \/ isLoading
       THEN /\ chatOp' = "submitIgnored"
            /\ UNCHANGED <<messages, currentInput, isLoading, error, replyCalls>>
       ELSE /\ Len(messages) < MaxMessages
            /\ messages' = Append(messages, Message("user", Trim(currentInput)))
            /\ currentInput' = ""
            /\ isLoading' = TRUE
            /\ error' = NoError
            /\ replyCalls' = replyCalls (+) SetToBag({ReplyCall(messages')})
            /\ chatOp' = "submitAccepted"
  /\ UNCHANGED page

\* generateReply returned: lines 62-63, then finally
ReplyResolved(c, reply) ==
  /\ BagIn(c, replyCalls)
  /\ replyCalls' = replyCalls (-) SetToBag({c})
  /\ messages' = Append(c.messages, Message("assistant", reply))
  /\ isLoading' = FALSE
  /\ chatOp' = "replied"
  /\ UNCHANGED <<currentInput, error, page>>

\* generateReply threw and the catch block only set the error (not what
\* the code does)
ReplyRejectedSilent(c) ==
  /\ BagIn(c, replyCalls)
  /\ replyCalls' = replyCalls (-) SetToBag({c})
  /\ error' = FailedToGetResponse
  /\ isLoading' = FALSE
  /\ chatOp' = "apologised"
  /\ UNCHANGED <<messages, currentInput, page>>

\* generateReply threw: lines 65-74, then finally
ReplyRejected(c) ==
  /\ BagIn(c, replyCalls)
  /\ replyCalls' = replyCalls (-) SetToBag({c})
  /\ error' = FailedToGetResponse
  /\ messages' = Append(c.messages, Apology)
  /\ isLoading' = FALSE
  /\ chatOp' = "apologised"
  /\ UNCHANGED <<currentInput, page>>

\* the Clear History button: rendered when there are messages, disabled
\* while isLoading
clearHistory ==
  /\ messages # <<>>
  /\ ~isLoading
  /\ messages' = <<>>
  /\ error' = NoError
  /\ chatOp' = "cleared"
  /\ UNCHANGED <<currentInput, isLoading, replyCalls, page>>

ChatUserStep ==
  \/ \E v \in ChatInputs : handleInputChange(v)
  \/ handleSubmit
  \/ clearHistory

ReplyStep ==
  \/ \E c \in BagToSet(replyCalls) : \E reply \in Replies : ReplyResolved(c, reply)
  \/ \E c \in BagToSet(replyCalls) : ReplyRejected(c)

ChatNext == ChatUserStep \/ ReplyStep

\* every generateReply call is eventually answered or fails; nothing
\* obliges the user to type or submit
ChatSpec == Init /\ [][ChatNext]_vars /\ WF_vars(ReplyStep)

\* at most one generateReply call is in flight, and isLoading tells whether
\* one is
OneReplyInFlight ==
  /\ BagCardinality(replyCalls) <= 1
  /\ isLoading <=> replyCalls # EmptyBag

\* user and assistant messages alternate, a user message first
Alternates ==
  \A i \in 1..Len(messages) :
     messages[i].role = IF i % 2 = 1 THEN "user" ELSE "assistant"

\* a submit while isLoading or with a blank input changes nothing; any
\* other appends the trimmed input as the user's message and sends the
\* history with it
SubmitAppendsAndSends ==
  chatOp' \in {"submitIgnored", "submitAccepted"} =>
    IF isLoading \/ Trim(currentInput) = ""
      THEN UNCHANGED <<messages, currentInput, isLoading, error, replyCalls>>
      ELSE /\ messages' = Append(messages, Message("user", Trim(currentInput)))
           /\ replyCalls' = SetToBag({ReplyCall(messages')})
           /\ isLoading'

\* the answer to a call appends one assistant message, the reply or the
\* apology, and ends the loading
AnswerAppendsOne ==
  chatOp' \in {"replied", "apologised"} =>
    /\ \E m \in {Apology} \cup {Message("assistant", r) : r \in Replies} :
          messages' = Append(messages, m)
    /\ ~isLoading'
    /\ replyCalls' = EmptyBag

\* C20: in ChatAsk at most one generateReply call is in flight (a submit
\* while isLoading, or with a blank input, changes nothing); the messages
\* alternate between user and assistant, a user message first; an accepted
\* submit appends the user's message and sends the history including it,
\* and is eventually followed by exactly one assistant message, the reply
\* or the apology, with isLoading false again.
C20_OneReplyAlternating ==
  /\ [](OneReplyInFlight /\ Alternates)
  /\ [][SubmitAppendsAndSends /\ AnswerAppendsOne]_vars
  /\ \A n \in 1..MaxMessages :
        (isLoading /\ Len(messages) = n) ~>
           ( /\ ~isLoading
             /\ Len(messages) = n + 1
             /\ messages[n + 1].role = "assistant" )

\* two questions were asked; the first got its reply, the second call
\* failed and got the apology
C20_Witness ==
  /\ chatOp = "apologised"
  /\ ~isLoading
  /\ Len(messages) = 4
  /\ messages[2].content \in Replies
  /\ messages[4] = Apology

====
